---- MODULE Spec2Model ----
(***************************************************************************)
(* The welding knowledge base of src/weldingKnowledge.js and its           *)
(* recommendation logic, weldingKnowledge.getRecommendations.              *)
(*                                                                         *)
(* JavaScript values are modelled as follows.                              *)
(*  - A string the code only compares or copies is a TLA+ string; the      *)
(*    empty string "" is the value the code initialises a result field     *)
(*    with (the field is "unset").                                          *)
(*  - A string the code takes apart or builds (the amperage entries of     *)
(*    the electrodeSize table and the amperage field of the result) is a   *)
(*    sequence of one-character strings, so that split, parseInt and the   *)
(*    template literal are computed and not assumed.                       *)
(*  - A number is an integer count of tenths (the code multiplies          *)
(*    integers by 0.4 and 0.6), or NaN.                                    *)
(*  - A property read obj[key] finds an own property, a property           *)
(*    inherited from Object.prototype, or undefined.                       *)
(***************************************************************************)
EXTENDS Integers, Sequences, FiniteSets, TLC

\* inputs, pc, result: the snapshot of the call at hand, where the call stands
\*   ("call": about to run, "returned", "threw") and the object it returned;
\* kb: the tables of weldingKnowledge the engine reads, as they now are;
\* earlier: the calls completed before the call at hand, each with its
\*   snapshot, its outcome and its result; calls: how many they were;
\* visualization: the WeldingKnowledgeVisualization instance of the page
\*   (its params and its currentRecommendations), page: the simulation
\*   button, its click listeners and the interval timers, handler: the event
\*   handler that ran last and the engine calls it made. All three are
\*   undefined until window.onload has run initWeldingVisualization.
VARIABLES inputs, pc, result, kb, earlier, calls, visualization, page, handler

vars == <<inputs, pc, result, kb, earlier, calls, visualization, page, handler>>

\* The value of a field the caller left out of the snapshot.
Undefined == "(undefined)"

(***************************************************************************)
(* The knowledge base tables: their own keys.                              *)
(***************************************************************************)
Electrodes == {"E6010", "E6011", "E6013", "E7018", "E7024"}

ElectrodeSizes == {"3/32\"", "1/8\"", "5/32\""}

Positions == {"Flat", "Horizontal", "Vertical Down", "Vertical Up", "Overhead"}

MetalThicknesses == {"Thin (<1/8\")", "Medium (1/8\"-3/16\")", "Thick (>3/16\")"}

JointTypes == {"Butt", "Lap", "T", "Corner"}

\* weldingKnowledge.electrodeSize[size].amperage[electrode], character by character.
AmperageTable ==
  [s \in ElectrodeSizes |->
    CASE s = "3/32\"" ->
           [e \in Electrodes |->
             CASE e = "E6010" -> <<"4","0","-","8","0","A">>
               [] e = "E6011" -> <<"4","0","-","8","0","A">>
               [] e = "E6013" -> <<"4","0","-","8","0","A">>
               [] e = "E7018" -> <<"6","5","-","1","1","0","A">>
               [] e = "E7024" -> <<"1","0","0","-","1","4","5","A">>]
      [] s = "1/8\"" ->
           [e \in Electrodes |->
             CASE e = "E6010" -> <<"7","5","-","1","3","0","A">>
               [] e = "E6011" -> <<"7","5","-","1","3","0","A">>
               [] e = "E6013" -> <<"7","0","-","1","1","0","A">>
               [] e = "E7018" -> <<"1","0","0","-","1","5","0","A">>
               [] e = "E7024" -> <<"1","4","0","-","1","9","0","A">>]
      [] s = "5/32\"" ->
           [e \in Electrodes |->
             CASE e = "E6010" -> <<"1","1","0","-","1","7","0","A">>
               [] e = "E6011" -> <<"1","0","0","-","1","6","0","A">>
               [] e = "E6013" -> <<"1","1","0","-","1","6","0","A">>
               [] e = "E7018" -> <<"1","4","0","-","2","1","5","A">>
               [] e = "E7024" -> <<"1","8","0","-","2","5","0","A">>]]

\* weldingKnowledge.electrodes[electrode].techniqueOptions.
TechniqueOptions ==
  [e \in Electrodes |->
    CASE e = "E6010" -> <<"Circular", "Zigzag", "Whip/Step">>
      [] e = "E6011" -> <<"Circular", "Zigzag", "Whip/Step">>
      [] e = "E6013" -> <<"Straight", "Slight side-to-side">>
      [] e = "E7018" -> <<"Straight", "Side-to-side">>
      [] e = "E7024" -> <<"Straight">>]

\* weldingKnowledge.techniques.arcGap: its named levels.
ArcGapLevels == {"Short", "Medium", "Long"}

\* The knowledge base as the object literal builds it.
KnowledgeBase == [amperage |-> AmperageTable, techniqueOptions |-> TechniqueOptions]

\* The names every object literal inherits from Object.prototype (each is a
\* function or an object, so each is truthy and none has the properties of a
\* table record).
ObjectPrototypeKeys ==
  {"constructor", "__proto__", "hasOwnProperty", "isPrototypeOf",
   "propertyIsEnumerable", "toLocaleString", "toString", "valueOf",
   "__defineGetter__", "__defineSetter__", "__lookupGetter__", "__lookupSetter__"}

\* obj[key] for an object literal whose own keys are ownKeys.
PropertyKind(ownKeys, key) ==
  IF key \in ownKeys THEN "own"
  ELSE IF key \in ObjectPrototypeKeys THEN "inherited"
  ELSE "undefined"

(***************************************************************************)
(* Strings as character sequences: split('-'), parseInt, number to string. *)
(***************************************************************************)
Digits == <<"0","1","2","3","4","5","6","7","8","9">>

IsDigit(c) == \E i \in 1..10 : Digits[i] = c

DigitVal(c) == (CHOOSE i \in 1..10 : Digits[i] = c) - 1

\* String.prototype.split(sep) for a one-character separator.
RECURSIVE SplitFrom(_, _, _)
SplitFrom(s, sep, cur) ==
  IF s = <<>> THEN <<cur>>
  ELSE IF Head(s) = sep THEN <<cur>> \o SplitFrom(Tail(s), sep, <<>>)
  ELSE SplitFrom(Tail(s), sep, Append(cur, Head(s)))

Split(s, sep) == SplitFrom(s, sep, <<>>)

\* The leading decimal digits of s.
RECURSIVE LeadingDigits(_)
LeadingDigits(s) ==
  IF s = <<>> \/ ~IsDigit(Head(s)) THEN <<>>
  ELSE <<Head(s)>> \o LeadingDigits(Tail(s))

RECURSIVE DigitsValue(_, _)
DigitsValue(ds, acc) ==
  IF ds = <<>> THEN acc ELSE DigitsValue(Tail(ds), acc * 10 + DigitVal(Head(ds)))

\* A number: NaN, or t tenths.
NaN == [nan |-> TRUE, t |-> 0]

Num(n) == [nan |-> FALSE, t |-> 10 * n]

\* parseInt(s): the integer its leading digits spell, NaN when there are none.
\* (Entries start with a digit: leading blanks and signs are not modelled.)
ParseInt(s) ==
  LET ds == LeadingDigits(s)
  IN  IF ds = <<>> THEN NaN ELSE Num(DigitsValue(ds, 0))

\* x + y, x - y, and x * 0.d for a decimal digit d (d tenths).
Add(x, y) == IF x.nan \/ y.nan THEN NaN ELSE [nan |-> FALSE, t |-> x.t + y.t]

Sub(x, y) == IF x.nan \/ y.nan THEN NaN ELSE [nan |-> FALSE, t |-> x.t - y.t]

\* Every number the code scales is a whole number, so the product is a whole
\* number of tenths; its fractional digit is even (4r and 6r are even), never
\* 5, so the floating-point error of the product cannot change Math.round.
MulTenths(x, d) == IF x.nan THEN NaN ELSE [nan |-> FALSE, t |-> (x.t * d) \div 10]

\* Math.round(x): floor(x + 0.5).
MathRound(x) == IF x.nan THEN NaN ELSE [nan |-> FALSE, t |-> 10 * ((x.t + 5) \div 10)]

RECURSIVE NatToString(_)
NatToString(n) ==
  IF n < 10 THEN <<Digits[n + 1]>>
  ELSE NatToString(n \div 10) \o <<Digits[(n % 10) + 1]>>

\* String(x) for a whole number or NaN, as a template literal writes it.
NumberToString(x) ==
  IF x.nan THEN <<"N","a","N">>
  ELSE IF x.t < 0 THEN <<"-">> \o NatToString((0 - x.t) \div 10)
  ELSE NatToString(x.t \div 10)

(***************************************************************************)
(* getRecommendations, step by step.                                       *)
(***************************************************************************)
\* The recommendations object as the code initialises it.
InitialRecommendations ==
  [amperage |-> <<>>, arcGap |-> "", rodAngle |-> "", travelSpeed |-> "",
   motionPattern |-> <<>>, adjustments |-> <<>>]

\* A destructuring default: the default replaces undefined only.
WithDefault(v, d) == IF v = Undefined THEN d ELSE v

\* NarrowForThickness with the factors of the thin and the thick branch exchanged.
NarrowForThicknessSwapped(min, max, metalThickness) ==
  IF metalThickness = "Thin (<1/8\")"
    THEN <<min, Add(min, MulTenths(Sub(max, min), 6))>>
  ELSE IF metalThickness = "Thick (>3/16\")"
    THEN <<Add(min, MulTenths(Sub(max, min), 4)), max>>
  ELSE <<min, max>>

\* NarrowForThickness with the "min +" of the thin branch forgotten.
NarrowForThicknessNoBase(min, max, metalThickness) ==
  IF metalThickness = "Thin (<1/8\")"
    THEN <<min, MulTenths(Sub(max, min), 4)>>
  ELSE IF metalThickness = "Thick (>3/16\")"
    THEN <<Add(min, MulTenths(Sub(max, min), 6)), max>>
  ELSE <<min, max>>

\* "Adjust for metal thickness": the pair <<min, max>> after narrowing.
NarrowForThickness(min, max, metalThickness) ==
  IF metalThickness = "Thin (<1/8\")"
    THEN <<min, Add(min, MulTenths(Sub(max, min), 4))>>
  ELSE IF metalThickness = "Thick (>3/16\")"
    THEN <<Add(min, MulTenths(Sub(max, min), 6)), max>>
  ELSE <<min, max>>

\* "Adjust for position": max after the trim.
TrimForPosition(max, position) ==
  IF position = "Vertical Up" THEN Sub(max, Num(5))
  ELSE IF position = "Overhead" THEN Sub(max, Num(3))
  ELSE max

\* `${Math.round(min)}-${Math.round(max)}A`
FormatAmperage(min, max) ==
  NumberToString(MathRound(min)) \o <<"-">> \o NumberToString(MathRound(max)) \o <<"A">>

\* let [min, max] = entry.split('-').map(a => parseInt(a)): a part that is
\* missing is undefined, which arithmetic turns into NaN.
ParseRange(entry) ==
  LET parts == Split(entry, "-")
  IN  <<ParseInt(parts[1]), IF Len(parts) >= 2 THEN ParseInt(parts[2]) ELSE NaN>>

\* AmperageStep with the position trim applied before the thickness narrowing.
AmperageStepTrimFirst(electrode, electrodeSize, metalThickness, position) ==
  LET sizeData == PropertyKind(ElectrodeSizes, electrodeSize)
  IN  IF sizeData = "undefined" THEN [threw |-> FALSE, amperage |-> <<>>]
      ELSE IF sizeData = "inherited" THEN [threw |-> TRUE, amperage |-> <<>>]
      ELSE LET entry == PropertyKind(DOMAIN kb.amperage[electrodeSize], electrode)
           IN  IF entry = "undefined" THEN [threw |-> FALSE, amperage |-> <<>>]
               ELSE IF entry = "inherited" THEN [threw |-> TRUE, amperage |-> <<>>]
               ELSE LET range == ParseRange(kb.amperage[electrodeSize][electrode])
                        max == TrimForPosition(range[2], position)
                        narrowed == NarrowForThickness(range[1], max, metalThickness)
                    IN  [threw |-> FALSE, amperage |-> FormatAmperage(narrowed[1], narrowed[2])]

\* "Calculate base amperage range": whether the step throws, and the amperage.
\*   sizeData: an inherited property is truthy and has no amperage property,
\*     so sizeData.amperage[electrode] reads a property of undefined: TypeError;
\*   sizeData.amperage[electrode]: an inherited property is truthy and is no
\*     string, so .split is undefined and calling it is a TypeError.
AmperageStep(electrode, electrodeSize, metalThickness, position) ==
  LET sizeData == PropertyKind(ElectrodeSizes, electrodeSize)
  IN  IF sizeData = "undefined" THEN [threw |-> FALSE, amperage |-> <<>>]
      ELSE IF sizeData = "inherited" THEN [threw |-> TRUE, amperage |-> <<>>]
      ELSE LET entry == PropertyKind(DOMAIN kb.amperage[electrodeSize], electrode)
           IN  IF entry = "undefined" THEN [threw |-> FALSE, amperage |-> <<>>]
               ELSE IF entry = "inherited" THEN [threw |-> TRUE, amperage |-> <<>>]
               ELSE LET range == ParseRange(kb.amperage[electrodeSize][electrode])
                        narrowed == NarrowForThickness(range[1], range[2], metalThickness)
                        max == TrimForPosition(narrowed[2], position)
                    IN  [threw |-> FALSE, amperage |-> FormatAmperage(narrowed[1], max)]

\* RodAngleForJoint with the T joint left out of the Lap branch.
RodAngleForJointLapOnly(rodAngle, jointType, position) ==
  IF jointType = "Butt" THEN
    (IF position = "Flat" THEN "Perpendicular"
     ELSE IF position = "Vertical Up" THEN "45° angled up slightly"
     ELSE IF position = "Overhead" THEN "Nearly perpendicular"
     ELSE "45°")
  ELSE IF jointType = "Lap" THEN "45° into corner"
  ELSE IF jointType = "Corner" THEN "Bisect the corner angle"
  ELSE rodAngle

\* RodAngleForJoint with the Overhead case of the butt joint left out.
RodAngleForJointNoOverhead(rodAngle, jointType, position) ==
  IF jointType = "Butt" THEN
    (IF position = "Flat" THEN "Perpendicular"
     ELSE IF position = "Vertical Up" THEN "45° angled up slightly"
     ELSE "45°")
  ELSE IF jointType = "Lap" \/ jointType = "T" THEN "45° into corner"
  ELSE IF jointType = "Corner" THEN "Bisect the corner angle"
  ELSE rodAngle

\* "Rod angle recommendation": by joint type.
RodAngleForJoint(rodAngle, jointType, position) ==
  IF jointType = "Butt" THEN
    (IF position = "Flat" THEN "Perpendicular"
     ELSE IF position = "Vertical Up" THEN "45° angled up slightly"
     ELSE IF position = "Overhead" THEN "Nearly perpendicular"
     ELSE "45°")
  ELSE IF jointType = "Lap" \/ jointType = "T" THEN "45° into corner"
  ELSE IF jointType = "Corner" THEN "Bisect the corner angle"
  ELSE rodAngle

\* PositionStep with the travel speed of the Horizontal branch left out.
PositionStepNoHorizontalSpeed(rec, position, electrode) ==
  IF position = "Vertical Down" THEN
    [rec EXCEPT !.travelSpeed = "Fast",
                !.rodAngle = "Angle up slightly to hold puddle"]
  ELSE IF position = "Vertical Up" THEN
    [rec EXCEPT !.travelSpeed = "Medium-slow, steady",
                !.motionPattern =
                   IF electrode = "E7018" THEN Append(@, "Side-to-side")
                   ELSE IF electrode = "E6010" \/ electrode = "E6011"
                     THEN Append(Append(@, "Step/Whip"), "Circular")
                   ELSE @]
  ELSE IF position = "Horizontal" THEN
    [rec EXCEPT !.rodAngle = "Angle up slightly to control puddle"]
  ELSE rec

\* "Position-specific adjustments".
PositionStep(rec, position, electrode) ==
  IF position = "Vertical Down" THEN
    [rec EXCEPT !.travelSpeed = "Fast",
                !.rodAngle = "Angle up slightly to hold puddle"]
  ELSE IF position = "Vertical Up" THEN
    [rec EXCEPT !.travelSpeed = "Medium-slow, steady",
                !.motionPattern =
                   IF electrode = "E7018" THEN Append(@, "Side-to-side")
                   ELSE IF electrode = "E6010" \/ electrode = "E6011"
                     THEN Append(Append(@, "Step/Whip"), "Circular")
                   ELSE @]
  ELSE IF position = "Horizontal" THEN
    [rec EXCEPT !.rodAngle = "Angle up slightly to control puddle",
                !.travelSpeed = "Medium-fast to prevent sagging"]
  ELSE rec

\* ElectrodeStep with no emptiness test in the E6010/E6011 and E7018 branches.
ElectrodeStepNoGuard(rec, electrode) ==
  IF electrode = "E6010" \/ electrode = "E6011" THEN
    [rec EXCEPT !.arcGap = "Medium",
                !.motionPattern =
                   IF TRUE THEN @ \o <<"Circular", "Zigzag", "Whip/Step">> ELSE @]
  ELSE IF electrode = "E6013" THEN
    [rec EXCEPT !.arcGap = "Short to medium",
                !.motionPattern =
                   IF Len(@) = 0 THEN @ \o <<"Straight", "Slight side-to-side">> ELSE @]
  ELSE IF electrode = "E7018" THEN
    [rec EXCEPT !.arcGap = "Short",
                !.adjustments = Append(@, "Keep arc in puddle, don't let slag get ahead"),
                !.motionPattern =
                   IF TRUE THEN @ \o <<"Straight", "Side-to-side">> ELSE @]
  ELSE IF electrode = "E7024" THEN
    [rec EXCEPT !.arcGap = "Short",
                !.motionPattern = Append(@, "Straight")]
  ELSE rec

\* ElectrodeStep with the emptiness test of the other branches in the E7024 branch too.
ElectrodeStepE7024Guarded(rec, electrode) ==
  IF electrode = "E6010" \/ electrode = "E6011" THEN
    [rec EXCEPT !.arcGap = "Medium",
                !.motionPattern =
                   IF Len(@) = 0 THEN @ \o <<"Circular", "Zigzag", "Whip/Step">> ELSE @]
  ELSE IF electrode = "E6013" THEN
    [rec EXCEPT !.arcGap = "Short to medium",
                !.motionPattern =
                   IF Len(@) = 0 THEN @ \o <<"Straight", "Slight side-to-side">> ELSE @]
  ELSE IF electrode = "E7018" THEN
    [rec EXCEPT !.arcGap = "Short",
                !.adjustments = Append(@, "Keep arc in puddle, don't let slag get ahead"),
                !.motionPattern =
                   IF Len(@) = 0 THEN @ \o <<"Straight", "Side-to-side">> ELSE @]
  ELSE IF electrode = "E7024" THEN
    [rec EXCEPT !.arcGap = "Short",
                !.motionPattern = IF Len(@) = 0 THEN Append(@, "Straight") ELSE @]
  ELSE rec

\* ElectrodeStep with another text for the arc gap of E7018.
ElectrodeStepArcGapText(rec, electrode) ==
  IF electrode = "E6010" \/ electrode = "E6011" THEN
    [rec EXCEPT !.arcGap = "Medium",
                !.motionPattern =
                   IF Len(@) = 0 THEN @ \o <<"Circular", "Zigzag", "Whip/Step">> ELSE @]
  ELSE IF electrode = "E6013" THEN
    [rec EXCEPT !.arcGap = "Short to medium",
                !.motionPattern =
                   IF Len(@) = 0 THEN @ \o <<"Straight", "Slight side-to-side">> ELSE @]
  ELSE IF electrode = "E7018" THEN
    [rec EXCEPT !.arcGap = "Very short",
                !.adjustments = Append(@, "Keep arc in puddle, don't let slag get ahead"),
                !.motionPattern =
                   IF Len(@) = 0 THEN @ \o <<"Straight", "Side-to-side">> ELSE @]
  ELSE IF electrode = "E7024" THEN
    [rec EXCEPT !.arcGap = "Short",
                !.motionPattern = Append(@, "Straight")]
  ELSE rec

\* ElectrodeStep with the slag message pushed for E7024 as well.
ElectrodeStepSlagForE7024(rec, electrode) ==
  IF electrode = "E6010" \/ electrode = "E6011" THEN
    [rec EXCEPT !.arcGap = "Medium",
                !.motionPattern =
                   IF Len(@) = 0 THEN @ \o <<"Circular", "Zigzag", "Whip/Step">> ELSE @]
  ELSE IF electrode = "E6013" THEN
    [rec EXCEPT !.arcGap = "Short to medium",
                !.motionPattern =
                   IF Len(@) = 0 THEN @ \o <<"Straight", "Slight side-to-side">> ELSE @]
  ELSE IF electrode = "E7018" THEN
    [rec EXCEPT !.arcGap = "Short",
                !.adjustments = Append(@, "Keep arc in puddle, don't let slag get ahead"),
                !.motionPattern =
                   IF Len(@) = 0 THEN @ \o <<"Straight", "Side-to-side">> ELSE @]
  ELSE IF electrode = "E7024" THEN
    [rec EXCEPT !.arcGap = "Short",
                !.adjustments = Append(@, "Keep arc in puddle, don't let slag get ahead"),
                !.motionPattern = Append(@, "Straight")]
  ELSE rec

\* ElectrodeStep with the spelling "Step/Whip" of the position block in the E6010/E6011 branch.
ElectrodeStepStepWhip(rec, electrode) ==
  IF electrode = "E6010" \/ electrode = "E6011" THEN
    [rec EXCEPT !.arcGap = "Medium",
                !.motionPattern =
                   IF Len(@) = 0 THEN @ \o <<"Circular", "Zigzag", "Step/Whip">> ELSE @]
  ELSE IF electrode = "E6013" THEN
    [rec EXCEPT !.arcGap = "Short to medium",
                !.motionPattern =
                   IF Len(@) = 0 THEN @ \o <<"Straight", "Slight side-to-side">> ELSE @]
  ELSE IF electrode = "E7018" THEN
    [rec EXCEPT !.arcGap = "Short",
                !.adjustments = Append(@, "Keep arc in puddle, don't let slag get ahead"),
                !.motionPattern =
                   IF Len(@) = 0 THEN @ \o <<"Straight", "Side-to-side">> ELSE @]
  ELSE IF electrode = "E7024" THEN
    [rec EXCEPT !.arcGap = "Short",
                !.motionPattern = Append(@, "Straight")]
  ELSE rec

\* ElectrodeStep with the emptiness test of the E6010/E6011 branch inverted.
ElectrodeStepInvertedGuard(rec, electrode) ==
  IF electrode = "E6010" \/ electrode = "E6011" THEN
    [rec EXCEPT !.arcGap = "Medium",
                !.motionPattern =
                   IF Len(@) # 0 THEN @ \o <<"Circular", "Zigzag", "Whip/Step">> ELSE @]
  ELSE IF electrode = "E6013" THEN
    [rec EXCEPT !.arcGap = "Short to medium",
                !.motionPattern =
                   IF Len(@) = 0 THEN @ \o <<"Straight", "Slight side-to-side">> ELSE @]
  ELSE IF electrode = "E7018" THEN
    [rec EXCEPT !.arcGap = "Short",
                !.adjustments = Append(@, "Keep arc in puddle, don't let slag get ahead"),
                !.motionPattern =
                   IF Len(@) = 0 THEN @ \o <<"Straight", "Side-to-side">> ELSE @]
  ELSE IF electrode = "E7024" THEN
    [rec EXCEPT !.arcGap = "Short",
                !.motionPattern = Append(@, "Straight")]
  ELSE rec

\* "Electrode-specific recommendations".
ElectrodeStep(rec, electrode) ==
  IF electrode = "E6010" \/ electrode = "E6011" THEN
    [rec EXCEPT !.arcGap = "Medium",
                !.motionPattern =
                   IF Len(@) = 0 THEN @ \o <<"Circular", "Zigzag", "Whip/Step">> ELSE @]
  ELSE IF electrode = "E6013" THEN
    [rec EXCEPT !.arcGap = "Short to medium",
                !.motionPattern =
                   IF Len(@) = 0 THEN @ \o <<"Straight", "Slight side-to-side">> ELSE @]
  ELSE IF electrode = "E7018" THEN
    [rec EXCEPT !.arcGap = "Short",
                !.adjustments = Append(@, "Keep arc in puddle, don't let slag get ahead"),
                !.motionPattern =
                   IF Len(@) = 0 THEN @ \o <<"Straight", "Side-to-side">> ELSE @]
  ELSE IF electrode = "E7024" THEN
    [rec EXCEPT !.arcGap = "Short",
                !.motionPattern = Append(@, "Straight")]
  ELSE rec

\* "Adjust based on observed puddle behavior": the messages pushed for the
\* fluidity, the spread, the edge tie-in and the arc stability, in that order.
PuddleAdjustment(observedPuddle) ==
  IF observedPuddle = "Stiff"
    THEN <<"Increase heat: try higher amperage or slower travel">>
  ELSE IF observedPuddle = "VeryFluid"
    THEN <<"Reduce heat: try lower amperage or faster travel">>
  ELSE <<>>

SpreadAdjustment(observedSpread) ==
  IF observedSpread = "Narrow"
    THEN <<"Widen puddle: slow down slightly or increase amperage">>
  ELSE IF observedSpread = "Wide"
    THEN <<"Narrow puddle: speed up slightly or decrease amperage">>
  ELSE <<>>

TieInAdjustment(observedTieIn) ==
  IF observedTieIn = "Poor"
    THEN <<"Improve edge tie-in: direct more heat to edges, adjust angle">>
  ELSE <<>>

\* StabilityAdjustment with "or" for the "and" of its test.
StabilityAdjustmentOr(observedStability, electrode, machineType) ==
  IF observedStability = "Unstable" THEN
    (IF electrode = "E6010" \/ machineType = "AC"
       THEN <<"E6010 requires DC+, switch to E6011 for AC">>
     ELSE <<"Maintain consistent arc length, check machine settings">>)
  ELSE <<>>

StabilityAdjustment(observedStability, electrode, machineType) ==
  IF observedStability = "Unstable" THEN
    (IF electrode = "E6010" /\ machineType = "AC"
       THEN <<"E6010 requires DC+, switch to E6011 for AC">>
     ELSE <<"Maintain consistent arc length, check machine settings">>)
  ELSE <<>>

\* ObservationStep with a very fluid puddle also setting the travel speed.
ObservationStepSetsTravelSpeed(rec, electrode, machineType, observedPuddle, observedSpread, observedTieIn, observedStability) ==
  [rec EXCEPT !.travelSpeed = IF observedPuddle = "VeryFluid" THEN "Fast" ELSE @,
              !.adjustments =
     @ \o PuddleAdjustment(observedPuddle)
       \o SpreadAdjustment(observedSpread)
       \o TieInAdjustment(observedTieIn)
       \o StabilityAdjustment(observedStability, electrode, machineType)]

\* ObservationStep with the spread tested before the fluidity.
ObservationStepSpreadFirst(rec, electrode, machineType, observedPuddle, observedSpread, observedTieIn, observedStability) ==
  [rec EXCEPT !.adjustments =
     @ \o SpreadAdjustment(observedSpread)
       \o PuddleAdjustment(observedPuddle)
       \o TieInAdjustment(observedTieIn)
       \o StabilityAdjustment(observedStability, electrode, machineType)]

ObservationStep(rec, electrode, machineType, observedPuddle, observedSpread, observedTieIn, observedStability) ==
  [rec EXCEPT !.adjustments =
     @ \o PuddleAdjustment(observedPuddle)
       \o SpreadAdjustment(observedSpread)
       \o TieInAdjustment(observedTieIn)
       \o StabilityAdjustment(observedStability, electrode, machineType)]

\* getRecommendations with the electrode-specific block moved below the
\* observation block.
getRecommendationsElectrodeLast(in) ==
  LET observedPuddle == WithDefault(in.observedPuddle, "Moderate")
      observedSpread == WithDefault(in.observedSpread, "Moderate")
      observedTieIn == WithDefault(in.observedTieIn, "Adequate")
      observedStability == WithDefault(in.observedStability, "Stable")
      amp == AmperageStep(in.electrode, in.electrodeSize, in.metalThickness, in.position)
      r1 == [InitialRecommendations EXCEPT !.amperage = amp.amperage]
      r2 == [r1 EXCEPT !.rodAngle = RodAngleForJoint(@, in.jointType, in.position)]
      r3 == PositionStep(r2, in.position, in.electrode)
      r4 == ObservationStep(r3, in.electrode, in.machineType, observedPuddle,
                            observedSpread, observedTieIn, observedStability)
      r5 == ElectrodeStep(r4, in.electrode)
  IN  IF amp.threw THEN [threw |-> TRUE, value |-> InitialRecommendations]
      ELSE [threw |-> FALSE, value |-> r5]

\* getRecommendations with the rod angle block moved below the position block.
getRecommendationsJointLast(in) ==
  LET observedPuddle == WithDefault(in.observedPuddle, "Moderate")
      observedSpread == WithDefault(in.observedSpread, "Moderate")
      observedTieIn == WithDefault(in.observedTieIn, "Adequate")
      observedStability == WithDefault(in.observedStability, "Stable")
      amp == AmperageStep(in.electrode, in.electrodeSize, in.metalThickness, in.position)
      r1 == [InitialRecommendations EXCEPT !.amperage = amp.amperage]
      r2 == PositionStep(r1, in.position, in.electrode)
      r3 == [r2 EXCEPT !.rodAngle = RodAngleForJoint(@, in.jointType, in.position)]
      r4 == ElectrodeStep(r3, in.electrode)
      r5 == ObservationStep(r4, in.electrode, in.machineType, observedPuddle,
                            observedSpread, observedTieIn, observedStability)
  IN  IF amp.threw THEN [threw |-> TRUE, value |-> InitialRecommendations]
      ELSE [threw |-> FALSE, value |-> r5]

\* getRecommendations(in): [threw |-> TRUE] when the call ends in a TypeError,
\* and otherwise the recommendations object it returns.
getRecommendations(in) ==
  LET observedPuddle == WithDefault(in.observedPuddle, "Moderate")
      observedSpread == WithDefault(in.observedSpread, "Moderate")
      observedTieIn == WithDefault(in.observedTieIn, "Adequate")
      observedStability == WithDefault(in.observedStability, "Stable")
      amp == AmperageStep(in.electrode, in.electrodeSize, in.metalThickness, in.position)
      r1 == [InitialRecommendations EXCEPT !.amperage = amp.amperage]
      r2 == [r1 EXCEPT !.rodAngle = RodAngleForJoint(@, in.jointType, in.position)]
      r3 == PositionStep(r2, in.position, in.electrode)
      r4 == ElectrodeStep(r3, in.electrode)
      r5 == ObservationStep(r4, in.electrode, in.machineType, observedPuddle,
                            observedSpread, observedTieIn, observedStability)
  IN  IF amp.threw THEN [threw |-> TRUE, value |-> InitialRecommendations]
      ELSE [threw |-> FALSE, value |-> r5]

(***************************************************************************)
(* The snapshots the engine is called with.                                *)
(***************************************************************************)
\* A key of no table and of no prototype, and one Object.prototype has.
UnknownKey == "E9999"

InheritedKey == "constructor"

ElectrodeInputs == Electrodes \cup {UnknownKey, InheritedKey}

ElectrodeSizeInputs == ElectrodeSizes \cup {"1/4\"", InheritedKey}

PositionInputs == Positions \cup {"Inclined"}

MetalThicknessInputs == MetalThicknesses \cup {"Plate"}

JointTypeInputs == JointTypes \cup {"Edge"}

\* The code tests the machine type for "AC" only.
MachineTypeInputs == {"AC", "DC+"}

ObservedPuddleInputs == {"Stiff", "Moderate", "VeryFluid", Undefined}

ObservedSpreadInputs == {"Narrow", "Moderate", "Wide", Undefined}

\* The code tests the tie-in for "Poor" only.
ObservedTieInInputs == {"Poor", "Adequate", Undefined}

ObservedStabilityInputs == {"Unstable", "Stable", Undefined}

Snapshots ==
  [electrode : ElectrodeInputs, electrodeSize : ElectrodeSizeInputs,
   position : PositionInputs, metalThickness : MetalThicknessInputs,
   jointType : JointTypeInputs, machineType : MachineTypeInputs,
   observedPuddle : ObservedPuddleInputs, observedSpread : ObservedSpreadInputs,
   observedTieIn : ObservedTieInInputs, observedStability : ObservedStabilityInputs]

(***************************************************************************)
(* One call of the engine: the caller builds a snapshot, calls, and the    *)
(* call returns a recommendations object or ends in an exception.          *)
(***************************************************************************)
Init ==
  /\ inputs \in Snapshots
  /\ pc = "call"
  /\ result = InitialRecommendations
  /\ kb = KnowledgeBase
  /\ earlier = {}
  /\ calls = 0
  /\ visualization = Undefined
  /\ page = Undefined
  /\ handler = Undefined

\* Call with the amperage it computed stored back into the table entry it read.
CallWritesBack ==
  /\ pc = "call"
  /\ LET r == getRecommendations(inputs)
     IN  /\ pc' = IF r.threw THEN "threw" ELSE "returned"
         /\ result' = r.value
         /\ kb' = IF r.value.amperage # <<>>
                    THEN [kb EXCEPT !.amperage[inputs.electrodeSize][inputs.electrode] =
                                      r.value.amperage]
                    ELSE kb
  /\ UNCHANGED <<inputs, earlier, calls, visualization, page, handler>>

\* The call runs to its end: getRecommendations reads inputs and the tables
\* and assigns to neither.
Call ==
  /\ pc = "call"
  /\ LET r == getRecommendations(inputs)
     IN  /\ pc' = IF r.threw THEN "threw" ELSE "returned"
         /\ result' = r.value
  /\ UNCHANGED <<inputs, kb, earlier, calls, visualization, page, handler>>

Next == Call

Spec == Init /\ [][Next]_vars

(***************************************************************************)
(* A sequence of calls on the one knowledge base, by one caller or by       *)
(* several in turn: JavaScript runs each call to its end before the next   *)
(* begins, so callers interleave call by call.                             *)
(***************************************************************************)
\* How many further calls follow the first.
MaxCalls == 3

\* The snapshots the callers of a sequence choose among.
CallerSnapshots ==
  [electrode : {"E6010", "E7018", "E7024", InheritedKey},
   electrodeSize : {"1/8\""},
   position : {"Flat", "Vertical Up"},
   metalThickness : {"Thin (<1/8\")", "Thick (>3/16\")"},
   jointType : {"Butt"}, machineType : {"AC"},
   observedPuddle : {"Stiff"}, observedSpread : {Undefined},
   observedTieIn : {"Poor"}, observedStability : {"Unstable"}]

InitCalls ==
  /\ inputs \in CallerSnapshots
  /\ pc = "call"
  /\ result = InitialRecommendations
  /\ kb = KnowledgeBase
  /\ earlier = {}
  /\ calls = 0
  /\ visualization = Undefined
  /\ page = Undefined
  /\ handler = Undefined

\* The call at hand is over and a caller makes the next one, with a snapshot
\* of its own.
NewCall ==
  /\ pc # "call"
  /\ calls < MaxCalls
  /\ earlier' = earlier \cup {[inputs |-> inputs, pc |-> pc, result |-> result]}
  /\ calls' = calls + 1
  /\ \E snapshot \in CallerSnapshots : inputs' = snapshot
  /\ pc' = "call"
  /\ result' = InitialRecommendations
  /\ UNCHANGED <<kb, visualization, page, handler>>

NextCalls == Call \/ NewCall

SpecCalls == InitCalls /\ [][NextCalls]_vars

(***************************************************************************)
(* Properties of getRecommendations.                                       *)
(***************************************************************************)
\* The observations the code works with: the snapshot's, defaulted.
Observed(in) ==
  [puddle |-> IF in.observedPuddle = Undefined THEN "Moderate" ELSE in.observedPuddle,
   spread |-> IF in.observedSpread = Undefined THEN "Moderate" ELSE in.observedSpread,
   tieIn |-> IF in.observedTieIn = Undefined THEN "Adequate" ELSE in.observedTieIn,
   stability |-> IF in.observedStability = Undefined THEN "Stable" ELSE in.observedStability]

\* Every field of the snapshot but the electrode is a key of its table.
OtherwiseValid(in) ==
  /\ in.electrodeSize \in ElectrodeSizes
  /\ in.position \in Positions
  /\ in.metalThickness \in MetalThicknesses
  /\ in.jointType \in JointTypes

\* C1: getRecommendations never raises an error: whatever strings the snapshot
\* holds, keys of no table included, the call returns a result record.
C1_NeverRaises == pc # "threw"

\* C2: for an electrode key that is in no table, with otherwise valid inputs,
\* the call raises no exception and returns a partial result: amperage and
\* arcGap unset, motionPattern empty, rodAngle and travelSpeed as for a known
\* electrode.
C2_UnknownElectrodePartial ==
  (pc # "call" /\ inputs.electrode \notin Electrodes /\ OtherwiseValid(inputs)) =>
    /\ pc = "returned"
    /\ result.amperage = <<>>
    /\ result.arcGap = ""
    /\ result.motionPattern = <<>>
    /\ \A e \in Electrodes :
         LET known == getRecommendations([inputs EXCEPT !.electrode = e]).value
         IN  /\ result.rodAngle = known.rodAngle
             /\ result.travelSpeed = known.travelSpeed

\* The text "min-maxA" read back: its parts at the "-", and whether s is a
\* non-empty run of digits.
AllDigits(s) == Len(s) > 0 /\ \A i \in 1..Len(s) : IsDigit(s[i])

IsRangeText(a) ==
  LET parts == Split(a, "-")
  IN  /\ Len(parts) = 2
      /\ AllDigits(parts[1])
      /\ Len(parts[2]) >= 2
      /\ parts[2][Len(parts[2])] = "A"
      /\ AllDigits(SubSeq(parts[2], 1, Len(parts[2]) - 1))

RangeMin(a) == DigitsValue(Split(a, "-")[1], 0)

RangeMax(a) ==
  LET p == Split(a, "-")[2] IN DigitsValue(SubSeq(p, 1, Len(p) - 1), 0)

InTables(in) ==
  /\ in.electrode \in Electrodes
  /\ in.electrodeSize \in ElectrodeSizes
  /\ in.metalThickness \in MetalThicknesses
  /\ in.position \in Positions

\* C3: for every electrode, electrode size, metal thickness and position of the
\* tables, the call returns a set amperage "min-maxA" with min <= max.
C3_AmperageMinLeMax ==
  (pc # "call" /\ InTables(inputs)) =>
    /\ pc = "returned"
    /\ IsRangeText(result.amperage)
    /\ RangeMin(result.amperage) <= RangeMax(result.amperage)

\* The narrowest range of the table, narrowed for thin metal and trimmed for
\* vertical up: 40-80A becomes 40-51A.
C3_Witness ==
  /\ pc = "returned"
  /\ inputs.electrode = "E6013" /\ inputs.electrodeSize = "3/32\""
  /\ inputs.metalThickness = "Thin (<1/8\")" /\ inputs.position = "Vertical Up"
  /\ result.amperage = <<"4","0","-","5","1","A">>

\* The scenario of C4, with the four observations left out and with the four
\* observations at the value the constructor gives them.
ScenarioInputs(puddle, spread, tieIn, stability) ==
  [electrode |-> "E6010", electrodeSize |-> "1/8\"", position |-> "Flat",
   metalThickness |-> "Medium (1/8\"-3/16\")", jointType |-> "Butt",
   machineType |-> "DC+", observedPuddle |-> puddle, observedSpread |-> spread,
   observedTieIn |-> tieIn, observedStability |-> stability]

ScenarioOmitted == ScenarioInputs(Undefined, Undefined, Undefined, Undefined)

ScenarioNominal == ScenarioInputs("Moderate", "Moderate", "Adequate", "Stable")

\* C4: E6010, 1/8", Flat, Medium, Butt, DC+ with the observations omitted (so
\* they default to Moderate/Moderate/Adequate/Stable) gives amperage "75-130A",
\* rodAngle "Perpendicular", arcGap "Medium", motionPattern Circular, Zigzag,
\* Whip/Step in that order, travelSpeed unset and no adjustments.
C4_DefaultScenario ==
  (pc # "call" /\ inputs \in {ScenarioOmitted, ScenarioNominal}) =>
    /\ pc = "returned"
    /\ result = [amperage |-> <<"7","5","-","1","3","0","A">>,
                 arcGap |-> "Medium",
                 rodAngle |-> "Perpendicular",
                 travelSpeed |-> "",
                 motionPattern |-> <<"Circular", "Zigzag", "Whip/Step">>,
                 adjustments |-> <<>>]

C4_Witness ==
  /\ pc = "returned"
  /\ inputs = ScenarioOmitted
  /\ result.rodAngle = "Perpendicular"
  /\ result.adjustments = <<>>

\* The adjustment messages, by the observation each answers.
HeatMessages ==
  {"Increase heat: try higher amperage or slower travel",
   "Reduce heat: try lower amperage or faster travel"}

SpreadMessages ==
  {"Widen puddle: slow down slightly or increase amperage",
   "Narrow puddle: speed up slightly or decrease amperage"}

TieInMessages == {"Improve edge tie-in: direct more heat to edges, adjust angle"}

StabilityMessages ==
  {"E6010 requires DC+, switch to E6011 for AC",
   "Maintain consistent arc length, check machine settings"}

SlagMessage == "Keep arc in puddle, don't let slag get ahead"

\* The message a condition selects: one message, or none.
Selected(cond, message) == IF cond THEN <<message>> ELSE <<>>

\* C5: for every electrode but E7018 the adjustments are exactly the messages
\* the observations select, in the order fluidity, spread, edge tie-in, arc
\* stability, at most one for each and none for a nominal observation; Stiff,
\* Narrow, Poor and Unstable together give exactly four messages, in the order
\* heat, spread, tie-in, stability.
C5_AdjustmentsInFixedOrder ==
  (pc = "returned" /\ inputs.electrode # "E7018") =>
    LET o == Observed(inputs)
        a == result.adjustments
    IN  /\ \E stab \in StabilityMessages :
             a = Selected(o.puddle = "Stiff",
                          "Increase heat: try higher amperage or slower travel")
                 \o Selected(o.puddle = "VeryFluid",
                             "Reduce heat: try lower amperage or faster travel")
                 \o Selected(o.spread = "Narrow",
                             "Widen puddle: slow down slightly or increase amperage")
                 \o Selected(o.spread = "Wide",
                             "Narrow puddle: speed up slightly or decrease amperage")
                 \o Selected(o.tieIn = "Poor",
                             "Improve edge tie-in: direct more heat to edges, adjust angle")
                 \o Selected(o.stability = "Unstable", stab)
        /\ (o.puddle = "Stiff" /\ o.spread = "Narrow" /\ o.tieIn = "Poor"
              /\ o.stability = "Unstable") =>
             /\ Len(a) = 4
             /\ a[1] \in HeatMessages /\ a[2] \in SpreadMessages
             /\ a[3] \in TieInMessages /\ a[4] \in StabilityMessages

C5_Witness ==
  /\ pc = "returned"
  /\ inputs.electrode = "E6010" /\ inputs.machineType = "AC"
  /\ inputs.observedPuddle = "Stiff" /\ inputs.observedSpread = "Narrow"
  /\ inputs.observedTieIn = "Poor" /\ inputs.observedStability = "Unstable"
  /\ Len(result.adjustments) = 4
  /\ result.adjustments[1] = "Increase heat: try higher amperage or slower travel"
  /\ result.adjustments[4] = "E6010 requires DC+, switch to E6011 for AC"

\* The place of a message in the stated priority; 0 for any other message.
Priority(m) ==
  IF m \in HeatMessages THEN 1
  ELSE IF m \in SpreadMessages THEN 2
  ELSE IF m \in TieInMessages THEN 3
  ELSE IF m \in StabilityMessages THEN 4
  ELSE 0

\* The observation messages of a stand in the order of their priority.
InPriorityOrder(a) ==
  \A i, j \in 1..Len(a) :
    (i < j /\ Priority(a[i]) > 0 /\ Priority(a[j]) > 0) => Priority(a[i]) < Priority(a[j])

\* C6, as stated: in every result, for every electrode including E7018, a heat
\* message, when present, is the first element of the adjustments, followed by
\* the spread, the edge tie-in and the arc stability message.
C6_HeatMessageFirst ==
  pc = "returned" =>
    LET a == result.adjustments
    IN  /\ InPriorityOrder(a)
        /\ \A i \in 1..Len(a) : a[i] \in HeatMessages => i = 1

\* C6, amended: in every result the observation messages stand in the order
\* heat, spread, edge tie-in, arc stability; a heat message, when present, is
\* the first element for every electrode but E7018, and for E7018 it is the
\* second element, after "Keep arc in puddle, don't let slag get ahead".
C6_PriorityOrderAfterSlagMessage ==
  pc = "returned" =>
    LET a == result.adjustments
    IN  /\ InPriorityOrder(a)
        /\ \A i \in 1..Len(a) :
             a[i] \in HeatMessages =>
               IF inputs.electrode = "E7018"
                 THEN i = 2 /\ a[1] = SlagMessage
                 ELSE i = 1

C6_Witness ==
  /\ pc = "returned"
  /\ inputs.electrode = "E7018"
  /\ inputs.observedPuddle = "Stiff" /\ inputs.observedSpread = "Wide"
  /\ Len(result.adjustments) >= 3
  /\ result.adjustments[1] = SlagMessage
  /\ result.adjustments[2] \in HeatMessages
  /\ result.adjustments[3] \in SpreadMessages

IsStabilityMessage(m) == m \in StabilityMessages

\* C7: when observedStability is "Unstable" exactly one stability message is
\* appended: "E6010 requires DC+, switch to E6011 for AC" if and only if the
\* electrode is E6010 and the machine type is AC, and otherwise "Maintain
\* consistent arc length, check machine settings"; when it is not "Unstable",
\* neither message appears.
C7_StabilityMessage ==
  pc = "returned" =>
    LET a == result.adjustments
        stab == SelectSeq(a, IsStabilityMessage)
    IN  IF Observed(inputs).stability = "Unstable"
          THEN /\ Len(stab) = 1
               /\ a[Len(a)] = stab[1]
               /\ (stab[1] = "E6010 requires DC+, switch to E6011 for AC")
                    <=> (inputs.electrode = "E6010" /\ inputs.machineType = "AC")
               /\ (stab[1] = "Maintain consistent arc length, check machine settings")
                    <=> ~(inputs.electrode = "E6010" /\ inputs.machineType = "AC")
          ELSE stab = <<>>

C7_Witness ==
  /\ pc = "returned"
  /\ inputs.electrode = "E6010" /\ inputs.machineType = "AC"
  /\ inputs.observedStability = "Unstable"
  /\ result.adjustments # <<>>
  /\ result.adjustments[Len(result.adjustments)]
       = "E6010 requires DC+, switch to E6011 for AC"

\* The positions whose branch of the position block sets the rod angle.
OverridingPositions == {"Vertical Down", "Horizontal"}

\* C8, as stated: for jointType "Lap" or "T" the rodAngle is "45° into corner"
\* for every position.
C8_LapTIgnorePosition ==
  (pc = "returned" /\ inputs.jointType \in {"Lap", "T"}) =>
    result.rodAngle = "45° into corner"

\* C8, amended: for jointType "Lap" or "T" the rodAngle is "45° into corner"
\* for every position but Vertical Down and Horizontal.
C8_LapTOutsideOverride ==
  (pc = "returned" /\ inputs.jointType \in {"Lap", "T"}
     /\ inputs.position \notin OverridingPositions) =>
    result.rodAngle = "45° into corner"

C8_Witness ==
  /\ pc = "returned"
  /\ inputs.jointType = "T" /\ inputs.position = "Overhead"
  /\ result.rodAngle = "45° into corner"

\* C9: for every jointType, position "Vertical Down" makes the rodAngle "Angle
\* up slightly to hold puddle" and position "Horizontal" makes it "Angle up
\* slightly to control puddle": the override replaces the joint-type value.
C9_PositionOverride ==
  pc = "returned" =>
    /\ inputs.position = "Vertical Down" =>
         result.rodAngle = "Angle up slightly to hold puddle"
    /\ inputs.position = "Horizontal" =>
         result.rodAngle = "Angle up slightly to control puddle"

C9_Witness ==
  /\ pc = "returned"
  /\ inputs.jointType = "Butt" /\ inputs.position = "Vertical Down"
  /\ result.rodAngle = "Angle up slightly to hold puddle"

\* The rod angle of a butt joint at a position that is neither Vertical Down
\* nor Horizontal.
ButtRodAngle(position) ==
  CASE position = "Flat" -> "Perpendicular"
    [] position = "Vertical Up" -> "45° angled up slightly"
    [] position = "Overhead" -> "Nearly perpendicular"
    [] OTHER -> "45°"

\* C10, as stated: at a position that is neither Vertical Down nor Horizontal,
\* jointType "Butt" gives "Perpendicular" at Flat, "45° angled up slightly" at
\* Vertical Up, "Nearly perpendicular" at Overhead and "45°" elsewhere;
\* "Corner" gives "Bisect the corner angle"; any other joint type leaves the
\* rodAngle unset.
C10_RodAngleByJoint ==
  (pc = "returned" /\ inputs.position \notin OverridingPositions) =>
    /\ inputs.jointType = "Butt" => result.rodAngle = ButtRodAngle(inputs.position)
    /\ inputs.jointType = "Corner" => result.rodAngle = "Bisect the corner angle"
    /\ inputs.jointType \notin {"Butt", "Corner"} => result.rodAngle = ""

\* C10, amended: as stated, but the rodAngle is unset for any joint type other
\* than Butt, Lap, T and Corner ("Lap" and "T" give "45° into corner").
C10_RodAngleByKnownJoint ==
  (pc = "returned" /\ inputs.position \notin OverridingPositions) =>
    /\ inputs.jointType = "Butt" => result.rodAngle = ButtRodAngle(inputs.position)
    /\ inputs.jointType = "Corner" => result.rodAngle = "Bisect the corner angle"
    /\ inputs.jointType \notin {"Butt", "Lap", "T", "Corner"} => result.rodAngle = ""

C10_Witness ==
  /\ pc = "returned"
  /\ inputs.jointType = "Butt" /\ inputs.position = "Overhead"
  /\ result.rodAngle = "Nearly perpendicular"

\* The bounds the table gives for a size and an electrode.
TableMin(size, electrode) == RangeMin(AmperageTable[size][electrode])

TableMax(size, electrode) == RangeMax(AmperageTable[size][electrode])

\* The positions whose amperage the position adjustment trims.
TrimmedPositions == {"Vertical Up", "Overhead"}

\* C11: for every (electrode, size) pair of the table at a position without
\* trim: with the Thin band the returned min is the table's and the returned
\* max is min + 0.4 x (max - min), strictly below the table's; with the Thick
\* band the returned max is the table's and the returned min is
\* min + 0.6 x (max - min), strictly above the table's; with the Medium band
\* both bounds are the table's.
C11_ThicknessNarrowing ==
  (pc = "returned" /\ InTables(inputs) /\ inputs.position \notin TrimmedPositions) =>
    LET tmin == TableMin(inputs.electrodeSize, inputs.electrode)
        tmax == TableMax(inputs.electrodeSize, inputs.electrode)
        rmin == RangeMin(result.amperage)
        rmax == RangeMax(result.amperage)
    IN  /\ IsRangeText(result.amperage)
        /\ inputs.metalThickness = "Thin (<1/8\")" =>
             /\ rmin = tmin
             /\ rmax < tmax
             /\ 10 * rmax = 10 * tmin + 4 * (tmax - tmin)
        /\ inputs.metalThickness = "Thick (>3/16\")" =>
             /\ rmax = tmax
             /\ rmin > tmin
             /\ 10 * rmin = 10 * tmin + 6 * (tmax - tmin)
        /\ inputs.metalThickness = "Medium (1/8\"-3/16\")" =>
             /\ rmin = tmin
             /\ rmax = tmax

\* 65-110A narrowed for thin metal: 65-83A.
C11_Witness ==
  /\ pc = "returned"
  /\ inputs.electrode = "E7018" /\ inputs.electrodeSize = "3/32\""
  /\ inputs.metalThickness = "Thin (<1/8\")" /\ inputs.position = "Flat"
  /\ result.amperage = <<"6","5","-","8","3","A">>

\* C12: for every (electrode, size) pair of the table and every thickness band
\* the returned max at Vertical Up is exactly 5 less, and at Overhead exactly
\* 3 less, than the returned max at Flat with the same other inputs, and the
\* returned min is the same as at Flat.
C12_PositionTrim ==
  (pc = "returned" /\ InTables(inputs) /\ inputs.position \in TrimmedPositions) =>
    LET flat == getRecommendations([inputs EXCEPT !.position = "Flat"]).value.amperage
        trim == IF inputs.position = "Vertical Up" THEN 5 ELSE 3
    IN  /\ IsRangeText(result.amperage)
        /\ IsRangeText(flat)
        /\ RangeMin(result.amperage) = RangeMin(flat)
        /\ RangeMax(result.amperage) = RangeMax(flat) - trim

\* 75-130A narrowed for thin metal to 75-97A, then trimmed: 75-92A.
C12_Witness ==
  /\ pc = "returned"
  /\ inputs.electrode = "E6010" /\ inputs.electrodeSize = "1/8\""
  /\ inputs.metalThickness = "Thin (<1/8\")" /\ inputs.position = "Vertical Up"
  /\ result.amperage = <<"7","5","-","9","2","A">>

\* C13: at position "Vertical Up" the motionPattern is exactly Side-to-side
\* for E7018 and exactly Step/Whip, Circular, in that order, for E6010 and
\* E6011: the electrode-specific step adds nothing to a non-empty list.
C13_VerticalUpPattern ==
  (pc = "returned" /\ inputs.position = "Vertical Up") =>
    /\ inputs.electrode = "E7018" => result.motionPattern = <<"Side-to-side">>
    /\ inputs.electrode \in {"E6010", "E6011"} =>
         result.motionPattern = <<"Step/Whip", "Circular">>

C13_Witness ==
  /\ pc = "returned"
  /\ inputs.position = "Vertical Up" /\ inputs.electrode = "E6011"
  /\ result.motionPattern = <<"Step/Whip", "Circular">>

\* C14: for electrode E7024, in every position and with every other input, the
\* motionPattern has "Straight" as its last element, and the E7024 step
\* appends it whether or not the list is already populated (here: applied
\* again to the returned, non-empty list, it appends once more).
C14_E7024AppendsStraight ==
  (pc = "returned" /\ inputs.electrode = "E7024") =>
    /\ result.motionPattern # <<>>
    /\ result.motionPattern[Len(result.motionPattern)] = "Straight"
    /\ ElectrodeStep(result, "E7024").motionPattern
         = Append(result.motionPattern, "Straight")

C14_Witness ==
  /\ pc = "returned"
  /\ inputs.electrode = "E7024" /\ inputs.position = "Vertical Up"
  /\ result.motionPattern = <<"Straight">>

\* C15, as stated: the arcGap of every result is unset or one of the named
\* arcGap levels of the technique table (Short, Medium, Long).
C15_ArcGapIsNamedLevel ==
  pc = "returned" => result.arcGap \in ArcGapLevels \cup {""}

\* C15, amended: the arcGap of every result is unset, or one of the named
\* arcGap levels of the technique table, or, for electrode E6013 and only for
\* it, the text "Short to medium", which is no level of the table.
C15_ArcGapLevelOrShortToMedium ==
  pc = "returned" =>
    IF inputs.electrode = "E6013"
      THEN result.arcGap = "Short to medium"
      ELSE result.arcGap \in ArcGapLevels \cup {""}

C15_Witness ==
  /\ pc = "returned"
  /\ inputs.electrode = "E6013"
  /\ result.arcGap = "Short to medium"
  /\ result.arcGap \notin ArcGapLevels

\* A call with the snapshot of an earlier call ends as that call did.
SameSnapshotSameResult ==
  pc # "call" =>
    \A c \in earlier : c.inputs = inputs => (c.pc = pc /\ c.result = result)

\* C16: getRecommendations has no side effects: through any sequence of calls,
\* by one caller or by several in turn, no step changes a knowledge-base
\* table, no call changes the snapshot it was given, and a call with a given
\* snapshot returns a result equal to that of every earlier call with it.
C16_NoSideEffects ==
  /\ [](kb = KnowledgeBase /\ SameSnapshotSameResult)
  /\ [][kb' = kb /\ (pc = "call" => inputs' = inputs)]_vars

\* A snapshot called, another called, and the first called again.
C16_Witness ==
  /\ pc = "returned"
  /\ calls >= 2
  /\ result.amperage # <<>>
  /\ \E c \in earlier : c.inputs = inputs /\ c.result = result
  /\ \E c \in earlier : c.inputs # inputs

\* C17: the travelSpeed depends on the position only: "Fast" at Vertical Down,
\* "Medium-slow, steady" at Vertical Up, "Medium-fast to prevent sagging" at
\* Horizontal, and unset at every other position, whatever the electrode,
\* joint type, thickness and observations.
C17_TravelSpeedByPosition ==
  pc = "returned" =>
    result.travelSpeed =
      CASE inputs.position = "Vertical Down" -> "Fast"
        [] inputs.position = "Vertical Up" -> "Medium-slow, steady"
        [] inputs.position = "Horizontal" -> "Medium-fast to prevent sagging"
        [] OTHER -> ""

C17_Witness ==
  /\ pc = "returned"
  /\ inputs.position = "Horizontal"
  /\ inputs.electrode = "E7024" /\ inputs.jointType = "Corner"
  /\ result.travelSpeed = "Medium-fast to prevent sagging"

\* The elements of a sequence.
Elements(seq) == {seq[i] : i \in 1..Len(seq)}

\* C18: for each of the five known electrodes the arcGap is set and depends on
\* the electrode only: "Medium" for E6010 and E6011, "Short to medium" for
\* E6013, "Short" for E7018 and E7024; and "Keep arc in puddle, don't let slag
\* get ahead" is among the adjustments if and only if the electrode is E7018.
C18_ArcGapByElectrode ==
  pc = "returned" =>
    /\ inputs.electrode \in {"E6010", "E6011"} => result.arcGap = "Medium"
    /\ inputs.electrode = "E6013" => result.arcGap = "Short to medium"
    /\ inputs.electrode \in {"E7018", "E7024"} => result.arcGap = "Short"
    /\ inputs.electrode \in Electrodes => result.arcGap # ""
    /\ (SlagMessage \in Elements(result.adjustments)) <=> (inputs.electrode = "E7018")

C18_Witness ==
  /\ pc = "returned"
  /\ inputs.electrode = "E7018"
  /\ result.arcGap = "Short"
  /\ result.adjustments # <<>>
  /\ result.adjustments[1] = SlagMessage

\* C19: for every known electrode and every position other than Vertical Up
\* the motionPattern equals, element for element and in order, the
\* techniqueOptions list of that electrode in the knowledge base (for E7024
\* it is exactly Straight).
C19_PatternIsTechniqueOptions ==
  (pc = "returned" /\ inputs.electrode \in Electrodes /\ inputs.position # "Vertical Up") =>
    /\ result.motionPattern = kb.techniqueOptions[inputs.electrode]
    /\ inputs.electrode = "E7024" => result.motionPattern = <<"Straight">>

C19_Witness ==
  /\ pc = "returned"
  /\ inputs.electrode = "E6013" /\ inputs.position = "Horizontal"
  /\ result.motionPattern = <<"Straight", "Slight side-to-side">>

\* The snapshot with the same electrode, size, position, thickness and joint
\* type, nominal observations and machine type DC+.
NominalSnapshot(in) ==
  [in EXCEPT !.machineType = "DC+", !.observedPuddle = "Moderate",
             !.observedSpread = "Moderate", !.observedTieIn = "Adequate",
             !.observedStability = "Stable"]

\* C20: the observations and the machine type influence nothing but the
\* adjustments: every call ends as the call with the nominal snapshot of the
\* same electrode, size, position, thickness and joint type does, with equal
\* amperage, arcGap, rodAngle, travelSpeed and motionPattern (so any two
\* snapshots that agree on these five fields agree on these five results).
C20_ObservationsOnlyAdjust ==
  pc # "call" =>
    LET nominal == getRecommendations(NominalSnapshot(inputs))
    IN  /\ nominal.threw <=> (pc = "threw")
        /\ pc = "returned" =>
             /\ result.amperage = nominal.value.amperage
             /\ result.arcGap = nominal.value.arcGap
             /\ result.rodAngle = nominal.value.rodAngle
             /\ result.travelSpeed = nominal.value.travelSpeed
             /\ result.motionPattern = nominal.value.motionPattern

C20_Witness ==
  /\ pc = "returned"
  /\ inputs.machineType = "AC" /\ inputs.electrode = "E6010"
  /\ inputs.observedPuddle = "VeryFluid" /\ inputs.observedSpread = "Wide"
  /\ inputs.observedTieIn = "Poor" /\ inputs.observedStability = "Unstable"
  /\ Len(result.adjustments) = 4
  /\ result.amperage # <<>>
  /\ result.travelSpeed = ""

(***************************************************************************)
(* The presentation layer: window.onload builds the page and the           *)
(* visualization, and from then on the event loop runs one handler at a    *)
(* time to its end: a change of a GUI controller, a tick of a simulation   *)
(* interval timer, a click of the simulation button.                       *)
(***************************************************************************)
\* this.currentRecommendations = {}: every property of it reads undefined.
EmptyObject == [property \in DOMAIN InitialRecommendations |-> Undefined]

\* this.params as the constructor builds it.
DefaultParams ==
  [electrode |-> "E6010", electrodeSize |-> "1/8\"", position |-> "Flat",
   metalThickness |-> "Medium (1/8\"-3/16\")", jointType |-> "Butt",
   machineType |-> "DC+", observedPuddle |-> "Moderate",
   observedSpread |-> "Moderate", observedTieIn |-> "Adequate",
   observedStability |-> "Stable"]

\* The options of the controllers the user picks among: those of the
\* observations in full; of electrode, position, metal thickness and machine
\* type the default and one more; of electrode size and joint type the
\* default alone.
GuiOptions ==
  [electrode |-> {"E6010", "E7018"},
   electrodeSize |-> {"1/8\""},
   position |-> {"Flat", "Vertical Up"},
   metalThickness |-> {"Medium (1/8\"-3/16\")", "Thin (<1/8\")"},
   jointType |-> {"Butt"},
   machineType |-> {"DC+", "AC"},
   observedPuddle |-> {"Stiff", "Moderate", "VeryFluid"},
   observedSpread |-> {"Narrow", "Moderate", "Wide"},
   observedTieIn |-> {"Poor", "Adequate", "Excellent"},
   observedStability |-> {"Unstable", "Stable"}]

\* updateRecommendations: the engine is called with this.params itself and
\* what it returns is assigned; if the call throws nothing is assigned.
updateRecommendations(v) ==
  LET r == getRecommendations(v.params)
  IN  IF r.threw THEN v ELSE [v EXCEPT !.currentRecommendations = r.value]

\* The engine call a handler made through updateRecommendations, as the call
\* at hand: its snapshot is the params object, and it is over.
EngineCalled(v) ==
  /\ inputs' = v.params
  /\ LET r == getRecommendations(v.params)
     IN  /\ pc' = IF r.threw THEN "threw" ELSE "returned"
         /\ result' = r.value
  /\ UNCHANGED <<kb, earlier, calls>>

puddleStates == <<"Stiff", "Moderate", "VeryFluid">>

spreadStates == <<"Narrow", "Moderate", "Wide">>

tieInStates == <<"Poor", "Adequate", "Excellent">>

\* The listener initWeldingVisualization registers on the button, and the one
\* that listener registers with { once: true } for the timer it started.
StartListener == [kind |-> "start", interval |-> 0]

StopListener(id) == [kind |-> "stop", interval |-> id]

\* The page as initWeldingVisualization leaves it: the button enabled, no
\* interval timer, the one click listener.
LoadedPage ==
  [textContent |-> "Simulate Real-time Input", disabled |-> FALSE,
   intervals |-> <<>>, listeners |-> <<StartListener>>]

\* simulateRealTimeInput: setInterval makes a new timer with a currentIndex
\* of its own; the cleanup function returned clears that timer.
simulateRealTimeInput(p) ==
  [p EXCEPT !.intervals = Append(@, [active |-> TRUE, currentIndex |-> 0])]

\* One click listener runs. The first starts a simulation, relabels the
\* button and registers the stop listener of the new timer; a stop listener,
\* registered once, leaves the list as it runs, clears its own timer and
\* disables the button.
RunListener(p, listener) ==
  IF listener.kind = "start"
    THEN LET started == simulateRealTimeInput(p)
         IN  [started EXCEPT
                !.textContent = "Stop Simulation",
                !.listeners = Append(@, StopListener(Len(started.intervals)))]
    ELSE [p EXCEPT
            !.listeners = SelectSeq(@, LAMBDA l : l # listener),
            !.intervals[listener.interval].active = FALSE,
            !.textContent = "Simulation Stopped",
            !.disabled = TRUE]

\* The dispatch of a click runs the listeners that were registered when it
\* began, in the order of their registration; a listener added meanwhile
\* waits for the next click.
RECURSIVE Dispatch(_, _)
Dispatch(p, listeners) ==
  IF listeners = <<>> THEN p
  ELSE Dispatch(RunListener(p, Head(listeners)), Tail(listeners))

\* The timers setInterval has made and clearInterval has not cleared.
ActiveIntervals == {id \in DOMAIN page.intervals : page.intervals[id].active}

\* After window.onload: the constructor has built params and run init, whose
\* last step is updateRecommendations.
InitGUI ==
  /\ kb = KnowledgeBase
  /\ visualization =
       updateRecommendations([params |-> DefaultParams,
                              currentRecommendations |-> EmptyObject])
  /\ page = LoadedPage
  /\ handler = [name |-> "init", engineCalls |-> 1]
  /\ inputs = DefaultParams
  /\ pc = "returned"
  /\ result = getRecommendations(DefaultParams).value
  /\ earlier = {}
  /\ calls = 0

\* The user picks another option of a controller: the controller assigns it
\* to params and runs the onChange callback.
OnChange(field, value) ==
  /\ value \in GuiOptions[field]
  /\ value # visualization.params[field]
  /\ visualization' =
       updateRecommendations([visualization EXCEPT !.params[field] = value])
  /\ handler' = [name |-> "onChange", engineCalls |-> 1]
  /\ EngineCalled(visualization')
  /\ UNCHANGED page

\* A tick that assigns the three observations and leaves the recommendations
\* as they were.
SimulationTickNoUpdate(id) ==
  /\ id \in ActiveIntervals
  /\ LET currentIndex == (page.intervals[id].currentIndex + 1) % 3
     IN  /\ page' = [page EXCEPT !.intervals[id].currentIndex = currentIndex]
         /\ visualization' =
              [visualization EXCEPT
                 !.params.observedPuddle = puddleStates[currentIndex + 1],
                 !.params.observedSpread = spreadStates[((currentIndex + 1) % 3) + 1],
                 !.params.observedTieIn = tieInStates[((currentIndex + 2) % 3) + 1]]
  /\ handler' = [name |-> "tick", engineCalls |-> 0]
  /\ UNCHANGED <<inputs, pc, result, kb, earlier, calls>>

\* An interval timer fires: the callback advances its currentIndex, assigns
\* the three simulated observations and calls updateRecommendations. (The
\* loop over this.gui.controllers only redraws controllers.)
SimulationTick(id) ==
  /\ id \in ActiveIntervals
  /\ LET currentIndex == (page.intervals[id].currentIndex + 1) % 3
     IN  /\ page' = [page EXCEPT !.intervals[id].currentIndex = currentIndex]
         /\ visualization' =
              updateRecommendations(
                [visualization EXCEPT
                   !.params.observedPuddle = puddleStates[currentIndex + 1],
                   !.params.observedSpread = spreadStates[((currentIndex + 1) % 3) + 1],
                   !.params.observedTieIn = tieInStates[((currentIndex + 2) % 3) + 1]])
  /\ handler' = [name |-> "tick", engineCalls |-> 1]
  /\ EngineCalled(visualization')

\* The user clicks the simulation button; a disabled button takes no click.
Click ==
  /\ ~page.disabled
  /\ page' = Dispatch(page, page.listeners)
  /\ handler' = [name |-> "click", engineCalls |-> 0]
  /\ UNCHANGED <<visualization, inputs, pc, result, kb, earlier, calls>>

NextGUI ==
  \/ \E field \in DOMAIN GuiOptions : \E value \in GuiOptions[field] :
       OnChange(field, value)
  \/ \E id \in DOMAIN page.intervals : SimulationTick(id)
  \/ Click

SpecGUI == InitGUI /\ [][NextGUI]_vars

(***************************************************************************)
(* Properties of the presentation layer.                                   *)
(***************************************************************************)
\* C21: whenever the event loop has control, after init and after every GUI
\* change and simulation tick, currentRecommendations is what
\* getRecommendations returns for the current params, and the handler that
\* changed a parameter or a simulated observation made exactly one engine
\* call.
C21_RecommendationsFollowParams ==
  /\ ~getRecommendations(visualization.params).threw
  /\ visualization.currentRecommendations =
       getRecommendations(visualization.params).value
  /\ handler.name \in {"init", "onChange", "tick"} => handler.engineCalls = 1

\* A tick has just set the observations, on params a controller had changed
\* before, and the recommendations carry the adjustments of those
\* observations.
C21_Witness ==
  /\ handler.name = "tick"
  /\ visualization.params.electrode = "E7018"
  /\ visualization.params.position = "Vertical Up"
  /\ visualization.params.observedPuddle = "VeryFluid"
  /\ visualization.params.observedSpread = "Narrow"
  /\ visualization.params.observedTieIn = "Adequate"
  /\ Len(visualization.currentRecommendations.adjustments) >= 2

\* C22: at most one simulation interval timer is active at any time, and once
\* the "Stop Simulation" click has happened (it is the click that disables
\* the button) no simulation interval timer is active, so that no tick
\* changes params or the recommendations any more.
C22_StopLeavesNoTimer ==
  /\ Cardinality(ActiveIntervals) <= 1
  /\ page.disabled => ActiveIntervals = {}

====
